---------------------------- MODULE Spec2Model ----------------------------
(***************************************************************************)
(* Model of backend.py, the HTTP facade in front of the cmc command-line   *)
(* client.  One request is followed from its arrival, through field        *)
(* validation, the precondition checks of exec_cmc and the blocking wait   *)
(* in subprocess.run, to the response the handler returns.                 *)
(*                                                                         *)
(* Texts are sequences of Unicode code points, byte strings are sequences  *)
(* of 0..255.  JSON values are tagged records:                             *)
(*   [t |-> "str", s |-> text]   [t |-> "num", n |-> n]   [t |-> "null"]   *)
(*   [t |-> "list", items |-> seq]   [t |-> "obj", f |-> record of members]    *)
(* and a key a dict does not hold is either outside DOMAIN f or mapped to  *)
(* Absent.                                                                 *)
(***************************************************************************)
EXTENDS Integers, Sequences, FiniteSets, TLC

VARIABLES
    cmcExists,  \* os.path.exists(WORK_DIR/basename(CMC_BIN))
    cfgExists,  \* os.path.exists(WORK_DIR/SDK_CONF_PATH)
    pc,         \* "idle", "running" (blocked in subprocess.run), "done"
    ep,         \* the endpoint of the request being handled
    body,       \* its request body
    call,       \* the invocation handed to exec_cmc: [method, params]
    spawned,    \* calls of subprocess.run made for this request
    clock,      \* time spent so far in the current wait in subprocess.run
    proc,       \* how the wait ended: exit (rc, stdout, stderr), timeout, exception
    resp,       \* the HTTP response
    arg,        \* _decode_result studied alone: its argument
    ret         \* _decode_result studied alone: its return value

vars == <<cmcExists, cfgExists, pc, ep, body, call, spawned, clock, proc, resp, arg, ret>>

-----------------------------------------------------------------------------
(* Bounds *)

\* longest argument of _decode_result drawn from DecodeAlphabet
MaxLen == 4

\* timeout=60 of exec_cmc
Timeout == 60

-----------------------------------------------------------------------------
(* JSON values and Python results *)

Absent == [t |-> "absent"]
JNull == [t |-> "null"]
JList(items) == [t |-> "list", items |-> items]
JStr(s) == [t |-> "str", s |-> s]
JNum(n) == [t |-> "num", n |-> n]
JObj(f) == [t |-> "obj", f |-> f]
EmptyDict == JObj([k \in {} |-> Absent])

\* an operation that returns v, and one that raises
Ret(v) == [raised |-> FALSE, v |-> v]
Raise == [raised |-> TRUE]

\* Python truthiness of a JSON value (None, "", 0, [] and a missing key are falsy)
Truthy(v) ==
    CASE v.t = "str" -> v.s # <<>>
      [] v.t = "num" -> v.n # 0
      [] v.t = "obj" -> \E k \in DOMAIN v.f : v.f[k] # Absent
      [] v.t = "list" -> v.items # <<>>
      [] OTHER -> FALSE

\* d.get(k, default): AttributeError unless d is a dict
DictGet(d, k, default) ==
    IF d.t # "obj" THEN Raise
    ELSE IF k \in DOMAIN d.f /\ d.f[k] # Absent THEN Ret(d.f[k])
    ELSE Ret(default)

-----------------------------------------------------------------------------
(* Text: str.strip, UTF-8, base64 *)

\* the characters str.strip() removes (those below U+0100)
IsSpace(c) == c \in {9, 10, 11, 12, 13, 28, 29, 30, 31, 32, 133, 160}

RECURSIVE LStrip(_)
LStrip(s) == IF s # <<>> /\ IsSpace(Head(s)) THEN LStrip(Tail(s)) ELSE s

RECURSIVE RStrip(_)
RStrip(s) ==
    IF s # <<>> /\ IsSpace(s[Len(s)]) THEN RStrip(SubSeq(s, 1, Len(s) - 1)) ELSE s

Strip(s) == RStrip(LStrip(s))

\* str.encode("utf-8") of one code point (a Unicode scalar value)
Utf8Char(c) ==
    IF c < 128 THEN <<c>>
    ELSE IF c < 2048 THEN <<192 + (c \div 64), 128 + (c % 64)>>
    ELSE IF c < 65536 THEN
        <<224 + (c \div 4096), 128 + ((c \div 64) % 64), 128 + (c % 64)>>
    ELSE <<240 + (c \div 262144), 128 + ((c \div 4096) % 64),
           128 + ((c \div 64) % 64), 128 + (c % 64)>>

RECURSIVE Utf8Encode(_)
Utf8Encode(s) == IF s = <<>> THEN <<>> ELSE Utf8Char(Head(s)) \o Utf8Encode(Tail(s))

IsCont(b) == b >= 128 /\ b <= 191

\* bytes.decode("utf-8"): the text, or UnicodeDecodeError
RECURSIVE Utf8Decode(_)
Utf8Decode(b) ==
    IF b = <<>> THEN Ret(<<>>)
    ELSE
      LET b1 == b[1]
          n  == Len(b)
          rest(k, c) ==
              LET r == Utf8Decode(SubSeq(b, k + 1, n))
              IN  IF r.raised THEN Raise ELSE Ret(<<c>> \o r.v)
      IN  IF b1 < 128 THEN rest(1, b1)
          ELSE IF b1 >= 194 /\ b1 <= 223 THEN
              IF n >= 2 /\ IsCont(b[2])
              THEN rest(2, (b1 - 192) * 64 + (b[2] - 128))
              ELSE Raise
          ELSE IF b1 >= 224 /\ b1 <= 239 THEN
              IF /\ n >= 3
                 /\ IsCont(b[2])
                 /\ IsCont(b[3])
                 /\ (b1 = 224 => b[2] >= 160)
                 /\ (b1 = 237 => b[2] <= 159)
              THEN rest(3, (b1 - 224) * 4096 + (b[2] - 128) * 64 + (b[3] - 128))
              ELSE Raise
          ELSE IF b1 >= 240 /\ b1 <= 244 THEN
              IF /\ n >= 4
                 /\ IsCont(b[2])
                 /\ IsCont(b[3])
                 /\ IsCont(b[4])
                 /\ (b1 = 240 => b[2] >= 144)
                 /\ (b1 = 244 => b[2] <= 143)
              THEN rest(4, (b1 - 240) * 262144 + (b[2] - 128) * 4096
                              + (b[3] - 128) * 64 + (b[4] - 128))
              ELSE Raise
          ELSE Raise

\* the base64 alphabet: A-Z a-z 0-9 + /
IsB64Alpha(c) ==
    \/ c >= 65 /\ c <= 90
    \/ c >= 97 /\ c <= 122
    \/ c >= 48 /\ c <= 57
    \/ c = 43
    \/ c = 47

B64Index(c) ==
    IF c >= 65 /\ c <= 90 THEN c - 65
    ELSE IF c >= 97 /\ c <= 122 THEN c - 71
    ELSE IF c >= 48 /\ c <= 57 THEN c + 4
    ELSE IF c = 43 THEN 62
    ELSE 63

B64Char(i) ==
    IF i < 26 THEN i + 65
    ELSE IF i < 52 THEN i + 71
    ELSE IF i < 62 THEN i - 4
    ELSE IF i = 62 THEN 43
    ELSE 47

\* base64.b64encode(b).decode("utf-8")
RECURSIVE B64Encode(_)
B64Encode(b) ==
    IF b = <<>> THEN <<>>
    ELSE IF Len(b) = 1 THEN
        <<B64Char(b[1] \div 4), B64Char((b[1] % 4) * 16), 61, 61>>
    ELSE IF Len(b) = 2 THEN
        <<B64Char(b[1] \div 4), B64Char((b[1] % 4) * 16 + (b[2] \div 16)),
          B64Char((b[2] % 16) * 4), 61>>
    ELSE
        <<B64Char(b[1] \div 4), B64Char((b[1] % 4) * 16 + (b[2] \div 16)),
          B64Char((b[2] % 16) * 4 + (b[3] \div 64)), B64Char(b[3] % 64)>>
        \o B64Encode(SubSeq(b, 4, Len(b)))

\* the decoding loop of base64.b64decode: i the position, q the position in the
\* current quad, left the bits carried over, pads the '=' seen in this quad,
\* started whether any '=' was seen
RECURSIVE A2bLoop(_, _, _, _, _, _, _, _)
A2bLoop(s, strict, i, q, left, pads, started, out) ==
    IF i > Len(s) THEN (IF q # 0 THEN Raise ELSE Ret(out))
    ELSE
      LET c == s[i]
          v == B64Index(c)
      IN  IF c = 61 THEN
              IF q >= 2 /\ q + pads + 1 >= 4
              THEN (IF strict /\ i < Len(s) THEN Raise ELSE Ret(out))
              ELSE A2bLoop(s, strict, i + 1, q, left,
                           IF q >= 2 THEN pads + 1 ELSE pads, TRUE, out)
          ELSE IF ~IsB64Alpha(c) THEN
              IF strict THEN Raise
              ELSE A2bLoop(s, strict, i + 1, q, left, pads, started, out)
          ELSE IF strict /\ started THEN Raise
          ELSE
              CASE q = 0 -> A2bLoop(s, strict, i + 1, 1, v, 0, started, out)
                [] q = 1 -> A2bLoop(s, strict, i + 1, 2, v % 16, 0, started,
                                    Append(out, left * 4 + (v \div 16)))
                [] q = 2 -> A2bLoop(s, strict, i + 1, 3, v % 4, 0, started,
                                    Append(out, left * 16 + (v \div 4)))
                [] q = 3 -> A2bLoop(s, strict, i + 1, 0, 0, 0, started,
                                    Append(out, left * 64 + v))

\* base64.b64decode(s, validate=strict): the bytes, or binascii.Error
B64Decode(s, strict) ==
    IF strict /\ s # <<>> /\ s[1] = 61 THEN Raise
    ELSE A2bLoop(s, strict, 1, 0, 0, 0, FALSE, <<>>)

\* the characters _is_base64 lets through: the alphabet, '=', "\n", "\r"
InCharset(c) == IsB64Alpha(c) \/ c \in {61, 10, 13}

\* _is_base64 without its b64decode(s, validate=True)
IsBase64_NoStrictDecode(s) == s # <<>> /\ \A i \in 1..Len(s) : InCharset(s[i])

\* _is_base64
IsBase64(s) ==
    /\ s # <<>>
    /\ \A i \in 1..Len(s) : InCharset(s[i])
    /\ ~B64Decode(s, TRUE).raised

\* _decode_result, for any JSON value
DecodeResult(v) ==
    IF v.t = "str" /\ IsBase64(v.s) THEN
        LET b == B64Decode(v.s, FALSE)
            u == IF b.raised THEN Raise ELSE Utf8Decode(b.v)
        IN  IF u.raised THEN v ELSE JStr(u.v)
    ELSE v


-----------------------------------------------------------------------------
(* Sample texts and the JSON documents the process prints *)

\* {"contract_result":{"result":"MA==","message":"Success","contract_event":[{"topic":"mint"}]},"tx_id":"tx1","tx_block_height":7}
DocFull ==
    [text |-> <<123, 34, 99, 111, 110, 116, 114, 97, 99, 116, 95, 114, 101, 115, 117, 108,
        116, 34, 58, 123, 34, 114, 101, 115, 117, 108, 116, 34, 58, 34, 77, 65, 61,
        61, 34, 44, 34, 109, 101, 115, 115, 97, 103, 101, 34, 58, 34, 83, 117, 99,
        99, 101, 115, 115, 34, 44, 34, 99, 111, 110, 116, 114, 97, 99, 116, 95, 101,
        118, 101, 110, 116, 34, 58, 91, 123, 34, 116, 111, 112, 105, 99, 34, 58, 34,
        109, 105, 110, 116, 34, 125, 93, 125, 44, 34, 116, 120, 95, 105, 100, 34,
        58, 34, 116, 120, 49, 34, 44, 34, 116, 120, 95, 98, 108, 111, 99, 107, 95,
        104, 101, 105, 103, 104, 116, 34, 58, 55, 125>>,
     value |-> JObj([contract_result |-> JObj([result |-> JStr(<<77, 65, 61, 61>>),
                           message |-> JStr(<<83, 117, 99, 99, 101, 115, 115>>),
                           contract_event |-> JList(<<JObj([topic |-> JStr(<<109, 105, 110, 116>>)])>>)]),
                     tx_id |-> JStr(<<116, 120, 49>>),
                     tx_block_height |-> JNum(7)])]

\* {"contract_result":{"result":"MA=="}}
DocResultZero ==
    [text |-> <<123, 34, 99, 111, 110, 116, 114, 97, 99, 116, 95, 114, 101, 115, 117, 108,
        116, 34, 58, 123, 34, 114, 101, 115, 117, 108, 116, 34, 58, 34, 77, 65, 61,
        61, 34, 125, 125>>,
     value |-> JObj([contract_result |-> JObj([result |-> JStr(<<77, 65, 61, 61>>)])])]

\* {"contract_result":{"result":"not-base64-!!"}}
DocResultPlain ==
    [text |-> <<123, 34, 99, 111, 110, 116, 114, 97, 99, 116, 95, 114, 101, 115, 117, 108,
        116, 34, 58, 123, 34, 114, 101, 115, 117, 108, 116, 34, 58, 34, 110, 111,
        116, 45, 98, 97, 115, 101, 54, 52, 45, 33, 33, 34, 125, 125>>,
     value |-> JObj([contract_result |-> JObj([result |-> JStr(<<110, 111, 116, 45, 98, 97, 115, 101, 54, 52, 45, 33, 33>>)])])]

\* {"contract_result":{"message":"Success"},"tx_id":"tx1"}
DocNoResult ==
    [text |-> <<123, 34, 99, 111, 110, 116, 114, 97, 99, 116, 95, 114, 101, 115, 117, 108,
        116, 34, 58, 123, 34, 109, 101, 115, 115, 97, 103, 101, 34, 58, 34, 83, 117,
        99, 99, 101, 115, 115, 34, 125, 44, 34, 116, 120, 95, 105, 100, 34, 58, 34,
        116, 120, 49, 34, 125>>,
     value |-> JObj([contract_result |-> JObj([message |-> JStr(<<83, 117, 99, 99, 101, 115, 115>>)]),
                     tx_id |-> JStr(<<116, 120, 49>>)])]

\* {"tx_id":"tx1"}
DocNoContractResult ==
    [text |-> <<123, 34, 116, 120, 95, 105, 100, 34, 58, 34, 116, 120, 49, 34, 125>>,
     value |-> JObj([tx_id |-> JStr(<<116, 120, 49>>)])]

\* {"contract_result":null}
DocNullContractResult ==
    [text |-> <<123, 34, 99, 111, 110, 116, 114, 97, 99, 116, 95, 114, 101, 115, 117, 108,
        116, 34, 58, 110, 117, 108, 108, 125>>,
     value |-> JObj([contract_result |-> JNull])]

\* []
DocList ==
    [text |-> <<91, 93>>,
     value |-> JList(<<>>)]

JsonDocs ==
    {DocFull, DocResultZero, DocResultPlain, DocNoResult, DocNoContractResult,
     DocNullContractResult, DocList}

\* ""
TxtEmpty == <<>>

\* "  "
TxtBlank == <<32, 32>>

\* " t1 "
TxtToken == <<32, 116, 49, 32>>

\* "hello"
TxtHello == <<104, 101, 108, 108, 111>>

\* "\u00e9"
TxtEAcute == <<233>>

\* "QUJD"
TxtPayload == <<81, 85, 74, 68>>

\* "MA=="
TxtZeroB64 == <<77, 65, 61, 61>>

\* "0"
TxtZero == <<48>>

\* "aGVsbG8="
TxtHelloB64 == <<97, 71, 86, 115, 98, 71, 56, 61>>

\* "not-base64-!!"
TxtNotBase64 == <<110, 111, 116, 45, 98, 97, 115, 101, 54, 52, 45, 33, 33>>

\* "done\n"
TxtPlainOut == <<100, 111, 110, 101, 10>>

\* "\n"
TxtNewline == <<10>>

\* "insufficient permission"
TxtPermission == <<105, 110, 115, 117, 102, 102, 105, 99, 105, 101, 110, 116, 32, 112, 101,
        114, 109, 105, 115, 115, 105, 111, 110>>

\* "insufficient permission\n"
TxtPermissionNl == <<105, 110, 115, 117, 102, 102, 105, 99, 105, 101, 110, 116, 32, 112, 101,
        114, 109, 105, 115, 115, 105, 111, 110, 10>>

-----------------------------------------------------------------------------
(* Responses and messages *)

\* ok(data), err(msg): jsonify of the uniform shape, HTTP 200
ok(data) == [status |-> 200, success |-> TRUE, data |-> data]
err(msg) == [status |-> 200, success |-> FALSE, error |-> msg]

\* what Flask answers when an exception leaves the view function
Http500 == [status |-> 500]
\* what request.get_json(force=True) answers to a body that is no JSON
Http400 == [status |-> 400]
NoResp == [status |-> 0]

\* "<fields joined by ' / '> 不能为空"
MsgEmpty(fields) == [k |-> "empty", fields |-> fields]
\* "找不到 CMC 可执行文件：..."
MsgNoCmc == [k |-> "no_cmc"]
\* "找不到 SDK 配置：..."
MsgNoCfg == [k |-> "no_sdk_config"]
\* "cmc 退出码 <rc>"
MsgExitCode(rc) == [k |-> "exit_code", rc |-> rc]
\* "执行超时"
MsgTimeout == [k |-> "timeout"]
\* "执行异常：<e>"
MsgException == [k |-> "exception"]
\* a text of the process, returned as the message
MsgText(s) == [k |-> "text", s |-> s]

-----------------------------------------------------------------------------
(* exec_cmc *)

\* json.loads of the stripped standard output: the value of a known document,
\* ValueError for every other text
JsonLoads(s) ==
    IF \E d \in JsonDocs : d.text = s
    THEN Ret((CHOOSE d \in JsonDocs : d.text = s).value)
    ELSE Raise

\* exec_cmc_precheck without the check of the SDK configuration
exec_cmc_precheck_CmcOnly(cmc, cfg) ==
    IF ~cmc THEN [go |-> FALSE, msg |-> MsgNoCmc] ELSE [go |-> TRUE]

\* exec_cmc before subprocess.run: the two os.path.exists checks
exec_cmc_precheck(cmc, cfg) ==
    IF ~cmc THEN [go |-> FALSE, msg |-> MsgNoCmc]
    ELSE IF ~cfg THEN [go |-> FALSE, msg |-> MsgNoCfg]
    ELSE [go |-> TRUE]

\* exec_cmc_result preferring the standard output to the standard error
exec_cmc_result_StdoutFirst(p) ==
    IF p.kind = "timeout" THEN [ok |-> FALSE, data |-> MsgTimeout]
    ELSE IF p.kind = "exception" THEN [ok |-> FALSE, data |-> MsgException]
    ELSE
      LET stdout == Strip(p.stdout)
          stderr == Strip(p.stderr)
      IN  IF p.rc # 0 THEN
              [ok |-> FALSE,
               data |-> IF stdout # <<>> THEN MsgText(stdout)
                        ELSE IF stderr # <<>> THEN MsgText(stderr)
                        ELSE MsgExitCode(p.rc)]
          ELSE
              LET j == JsonLoads(stdout)
              IN  [ok |-> TRUE, data |-> IF j.raised THEN JStr(stdout) ELSE j.v]

\* exec_cmc from subprocess.run on: what it returns for the way the wait ended
exec_cmc_result(p) ==
    IF p.kind = "timeout" THEN [ok |-> FALSE, data |-> MsgTimeout]
    ELSE IF p.kind = "exception" THEN [ok |-> FALSE, data |-> MsgException]
    ELSE
      LET stdout == Strip(p.stdout)
          stderr == Strip(p.stderr)
      IN  IF p.rc # 0 THEN
              [ok |-> FALSE,
               data |-> IF stderr # <<>> THEN MsgText(stderr)
                        ELSE IF stdout # <<>> THEN MsgText(stdout)
                        ELSE MsgExitCode(p.rc)]
          ELSE
              LET j == JsonLoads(stdout)
              IN  [ok |-> TRUE, data |-> IF j.raised THEN JStr(stdout) ELSE j.v]

-----------------------------------------------------------------------------
(* The handlers, up to their call of exec_cmc *)

Endpoints ==
    {"total-supply", "owner", "token-uri", "balance-of",
     "mint", "transfer-from", "burn", "create-or-set-category"}

ReadEndpoints == {"total-supply", "owner", "token-uri", "balance-of"}

\* a handler that returns r without calling exec_cmc, and one that calls it
Respond(r) == [k |-> "resp", resp |-> r]
Exec(method, params) == [k |-> "exec", method |-> method, params |-> params]

NoCall == [method |-> "", params |-> JNull]
NoProc == [kind |-> "none"]

\* b.get(key, "").strip(): AttributeError when b is no dict or the value no str
StripField(b, key) ==
    LET g == DictGet(b, key, JStr(<<>>))
    IN  IF g.raised THEN Raise
        ELSE IF g.v.t # "str" THEN Raise
        ELSE Ret(Strip(g.v.s))

\* owner_of, token_uri, balance_of, burn: one required field
OneField(b, key, method) ==
    LET f == StripField(b, key)
    IN  IF f.raised THEN Respond(Http500)
        ELSE IF f.v = <<>> THEN Respond(err(MsgEmpty(<<key>>)))
        ELSE Exec(method, JObj([x \in {key} |-> JStr(f.v)]))

owner_of(b) == OneField(b, "tokenId", "OwnerOf")
token_uri(b) == OneField(b, "tokenId", "TokenURI")
balance_of(b) == OneField(b, "account", "BalanceOf")
burn(b) == OneField(b, "tokenId", "Burn")

\* (b.get("metadata_text") or "").encode("utf-8")
MetadataText(b) ==
    LET g == DictGet(b, "metadata_text", JNull)
    IN  IF g.raised THEN Raise
        ELSE IF ~Truthy(g.v) THEN Ret(<<>>)
        ELSE IF g.v.t # "str" THEN Raise
        ELSE Ret(Utf8Encode(g.v.s))

\* MintMeta preferring the text to the pre-encoded payload
MintMeta_TextFirst(metadata_b64, metadata_text) ==
    IF metadata_text # <<>> THEN JStr(B64Encode(metadata_text))
    ELSE IF Truthy(metadata_b64) THEN metadata_b64
    ELSE JStr(<<>>)

\* mint: the meta it passes as params["metadata"]
MintMeta(metadata_b64, metadata_text) ==
    IF Truthy(metadata_b64) THEN metadata_b64
    ELSE IF metadata_text # <<>> THEN JStr(B64Encode(metadata_text))
    ELSE JStr(<<>>)

mint(b) ==
    LET to == StripField(b, "to")
        token_id == StripField(b, "tokenId")
        category == StripField(b, "categoryName")
        metadata_text == MetadataText(b)
        metadata_b64 == DictGet(b, "metadata_b64", JNull)
    IN  IF to.raised \/ token_id.raised \/ category.raised \/ metadata_text.raised
        THEN Respond(Http500)
        ELSE IF ~(to.v # <<>> /\ token_id.v # <<>> /\ category.v # <<>>)
        THEN Respond(err(MsgEmpty(<<"to", "tokenId", "categoryName">>)))
        ELSE Exec("Mint",
                  JObj([to |-> JStr(to.v),
                        tokenId |-> JStr(token_id.v),
                        categoryName |-> JStr(category.v),
                        metadata |-> MintMeta(metadata_b64.v, metadata_text.v)]))

transfer_from(b) ==
    LET from_addr == StripField(b, "from")
        to_addr == StripField(b, "to")
        token_id == StripField(b, "tokenId")
    IN  IF from_addr.raised \/ to_addr.raised \/ token_id.raised
        THEN Respond(Http500)
        ELSE IF ~(from_addr.v # <<>> /\ to_addr.v # <<>> /\ token_id.v # <<>>)
        THEN Respond(err(MsgEmpty(<<"from", "to", "tokenId">>)))
        ELSE Exec("TransferFrom",
                  JObj([from |-> JStr(from_addr.v),
                        to |-> JStr(to_addr.v),
                        tokenId |-> JStr(token_id.v)]))

\* category_json is json.dumps of the two fields; the model keeps the object
\* it serialises, tagged as a JSON text
create_or_set_category(b) ==
    LET name == StripField(b, "categoryName")
        uri == StripField(b, "categoryURI")
    IN  IF name.raised \/ uri.raised THEN Respond(Http500)
        ELSE IF ~(name.v # <<>> /\ uri.v # <<>>)
        THEN Respond(err(MsgEmpty(<<"categoryName", "categoryURI">>)))
        ELSE Exec("CreateOrSetCategory",
                  JObj([category |->
                          [t |-> "json_text",
                           of |-> JObj([categoryName |-> JStr(name.v),
                                        categoryURI |-> JStr(uri.v)])]]))

\* a request body: what request.get_json(force=True) makes of it
NoBody == [kind |-> "none"]
InvalidBody == [kind |-> "invalid"]
JsonBody(v) == [kind |-> "json", v |-> v]

\* the view function of endpoint e on body b, up to its call of exec_cmc
Handler(e, b) ==
    IF e = "total-supply" THEN Exec("TotalSupply", JNull)
    ELSE IF b.kind # "json" THEN Respond(Http400)
    ELSE CASE e = "owner" -> owner_of(b.v)
           [] e = "token-uri" -> token_uri(b.v)
           [] e = "balance-of" -> balance_of(b.v)
           [] e = "mint" -> mint(b.v)
           [] e = "transfer-from" -> transfer_from(b.v)
           [] e = "burn" -> burn(b.v)
           [] e = "create-or-set-category" -> create_or_set_category(b.v)

-----------------------------------------------------------------------------
(* The handlers, from the return of exec_cmc *)

\* ReadDefault with "" for every endpoint
ReadDefault_AllEmpty(e) == JStr(<<>>)

\* the default of data.get("contract_result", {}).get("result", <default>)
ReadDefault(e) ==
    IF e \in {"total-supply", "balance-of"} THEN JStr(TxtZeroB64) ELSE JStr(<<>>)

\* total_supply, owner_of, token_uri, balance_of after exec_cmc returned (True, data)
FinishRead(e, data) ==
    LET cr == DictGet(data, "contract_result", EmptyDict)
        res == IF cr.raised THEN Raise ELSE DictGet(cr.v, "result", ReadDefault(e))
    IN  IF res.raised THEN Http500 ELSE ok(DecodeResult(res.v))

\* mint, transfer_from, burn, create_or_set_category after exec_cmc returned (True, data)
FinishWrite(e, data) ==
    LET cr == DictGet(data, "contract_result", EmptyDict)
        msg == IF cr.raised THEN Raise ELSE DictGet(cr.v, "message", JStr(<<>>))
        evts == IF cr.raised THEN Raise ELSE DictGet(cr.v, "contract_event", JList(<<>>))
        tx_id == DictGet(data, "tx_id", JNull)
        height == DictGet(data, "tx_block_height", JNull)
    IN  IF cr.raised \/ msg.raised \/ evts.raised \/ tx_id.raised \/ height.raised
        THEN Http500
        ELSE ok(JObj([message |-> msg.v,
                      events |-> evts.v,
                      tx_id |-> tx_id.v,
                      block_height |-> height.v]))

\* the view function of endpoint e from the return r of exec_cmc
Finish(e, r) ==
    IF ~r.ok THEN err(r.data)
    ELSE IF e \in ReadEndpoints THEN FinishRead(e, r.data)
    ELSE FinishWrite(e, r.data)

-----------------------------------------------------------------------------
(* Inputs *)

\* the values a body field takes: missing, null, a number, "", blank, a text
FieldVals == {Absent, JNull, JNum(7), JStr(TxtEmpty), JStr(TxtBlank), JStr(TxtToken)}
MetadataTextVals == {Absent, JNull, JNum(7), JStr(TxtEmpty), JStr(TxtHello), JStr(TxtEAcute)}
MetadataB64Vals == {Absent, JStr(TxtEmpty), JStr(TxtPayload)}

ObjectBodies(e) ==
    CASE e \in {"owner", "token-uri", "burn"} ->
           {JObj([tokenId |-> v]) : v \in FieldVals}
      [] e = "balance-of" ->
           {JObj([account |-> v]) : v \in FieldVals}
      [] e = "transfer-from" ->
           {JObj(f) : f \in [from : FieldVals, to : FieldVals, tokenId : FieldVals]}
      [] e = "create-or-set-category" ->
           {JObj(f) : f \in [categoryName : FieldVals, categoryURI : FieldVals]}
      [] e = "mint" ->
           {JObj(f) : f \in [to : FieldVals, tokenId : FieldVals,
                             categoryName : FieldVals,
                             metadata_text : MetadataTextVals,
                             metadata_b64 : MetadataB64Vals]}
      [] OTHER -> {}

\* total-supply is a GET and reads no body
Bodies(e) ==
    IF e = "total-supply" THEN {NoBody}
    ELSE {InvalidBody, JsonBody(JList(<<>>)), JsonBody(JNull)}
         \cup {JsonBody(o) : o \in ObjectBodies(e)}

ExitCodes == {0, 1, 2}
Stdouts ==
    {DocFull.text, DocResultZero.text \o TxtNewline, DocResultPlain.text,
     DocNoResult.text, DocNoContractResult.text, DocNullContractResult.text,
     DocList.text, TxtNewline, TxtPlainOut}
Stderrs == {TxtEmpty, TxtNewline, TxtPermissionNl}

-----------------------------------------------------------------------------
(* The request, step by step *)

Init ==
    /\ cmcExists \in BOOLEAN
    /\ cfgExists \in BOOLEAN
    /\ pc = "idle"
    /\ ep = ""
    /\ body = NoBody
    /\ call = NoCall
    /\ spawned = 0
    /\ clock = 0
    /\ proc = NoProc
    /\ resp = NoResp
    /\ arg = Absent
    /\ ret = Absent

\* a request arrives and its handler runs until it returns or blocks in
\* subprocess.run
Request(e, b) ==
    /\ pc = "idle"
    /\ ep' = e
    /\ body' = b
    /\ LET h == Handler(e, b)
           chk == exec_cmc_precheck(cmcExists, cfgExists)
       IN  IF h.k = "resp" THEN
               /\ resp' = h.resp
               /\ pc' = "done"
               /\ UNCHANGED <<call, spawned>>
           ELSE IF ~chk.go THEN
               /\ call' = [method |-> h.method, params |-> h.params]
               /\ resp' = Finish(e, [ok |-> FALSE, data |-> chk.msg])
               /\ pc' = "done"
               /\ UNCHANGED spawned
           ELSE
               /\ call' = [method |-> h.method, params |-> h.params]
               /\ spawned' = spawned + 1
               /\ pc' = "running"
               /\ UNCHANGED resp
    /\ UNCHANGED <<cmcExists, cfgExists, clock, proc, arg, ret>>

\* the child is still running and the timeout has not elapsed
Tick ==
    /\ pc = "running"
    /\ clock < Timeout
    /\ clock' = clock + 1
    /\ UNCHANGED <<cmcExists, cfgExists, pc, ep, body, call, spawned, proc, resp, arg, ret>>

\* OnReturn calling subprocess.run a second time after a timeout or failure
OnReturn_Retry(p) ==
    IF p.kind # "exit" /\ spawned < 2
    THEN [pc |-> "running", spawned |-> spawned + 1, resp |-> NoResp]
    ELSE [pc |-> "done", spawned |-> spawned, resp |-> Finish(ep, exec_cmc_result(p))]

\* subprocess.run has returned or raised: exec_cmc returns and the handler answers
OnReturn(p) ==
    [pc |-> "done", spawned |-> spawned, resp |-> Finish(ep, exec_cmc_result(p))]

Return(p) ==
    /\ proc' = p
    /\ LET n == OnReturn(p)
       IN  /\ pc' = n.pc
           /\ spawned' = n.spawned
           /\ resp' = n.resp
    /\ clock' = 0
    /\ UNCHANGED <<cmcExists, cfgExists, ep, body, call, arg, ret>>

\* the child exits within the timeout
ProcExit(rc, out, errtext) ==
    /\ pc = "running"
    /\ clock < Timeout
    /\ Return([kind |-> "exit", rc |-> rc, stdout |-> out, stderr |-> errtext])

\* Expired of a subprocess.run called without timeout
Expired_Never(c) == FALSE

\* subprocess.run(timeout=timeout) gives up after Timeout
Expired(c) == c >= Timeout

\* subprocess.TimeoutExpired
TimeoutExpired ==
    /\ pc = "running"
    /\ Expired(clock)
    /\ Return([kind |-> "timeout"])

\* any other exception of subprocess.run (the spawn fails, the output does not decode)
ExecException ==
    /\ pc = "running"
    /\ clock < Timeout
    /\ Return([kind |-> "exception"])

\* the response is sent; the files of the working directory may come and go
\* between requests
NextRequest ==
    /\ pc = "done"
    /\ pc' = "idle"
    /\ ep' = ""
    /\ body' = NoBody
    /\ call' = NoCall
    /\ spawned' = 0
    /\ clock' = 0
    /\ proc' = NoProc
    /\ resp' = NoResp
    /\ cmcExists' \in BOOLEAN
    /\ cfgExists' \in BOOLEAN
    /\ UNCHANGED <<arg, ret>>

Next ==
    \/ \E e \in Endpoints : \E b \in Bodies(e) : Request(e, b)
    \/ Tick
    \/ \E rc \in ExitCodes : \E out \in Stdouts : \E errtext \in Stderrs :
           ProcExit(rc, out, errtext)
    \/ TimeoutExpired
    \/ ExecException
    \/ NextRequest

Spec == Init /\ [][Next]_vars

\* subprocess.run returns once the child exits or the timeout elapses: the wait
\* does not stall
FairSpec == Spec /\ WF_vars(Tick) /\ WF_vars(TimeoutExpired)

-----------------------------------------------------------------------------
(* _decode_result on its own *)

DecodeAlphabet == {81, 47, 119, 61, 10, 33}

RECURSIVE SeqsUpTo(_, _)
SeqsUpTo(S, n) ==
    IF n = 0 THEN {<<>>}
    ELSE LET shorter == SeqsUpTo(S, n - 1)
         IN  shorter \cup {Append(s, c) : s \in shorter, c \in S}

DecodeInputs ==
    {JStr(s) : s \in SeqsUpTo(DecodeAlphabet, MaxLen)}
    \cup {JStr(TxtZeroB64), JStr(TxtZeroB64 \o TxtNewline), JStr(TxtNotBase64),
          JStr(TxtHelloB64), JNull, JNum(7)}

InitDecode ==
    /\ cmcExists = TRUE
    /\ cfgExists = TRUE
    /\ pc = "idle"
    /\ ep = ""
    /\ body = NoBody
    /\ call = NoCall
    /\ spawned = 0
    /\ clock = 0
    /\ proc = NoProc
    /\ resp = NoResp
    /\ arg \in DecodeInputs
    /\ ret = Absent

Decode ==
    /\ ret = Absent
    /\ ret' = DecodeResult(arg)
    /\ UNCHANGED <<cmcExists, cfgExists, pc, ep, body, call, spawned, clock, proc, resp, arg>>

NextDecode == Decode

SpecDecode == InitDecode /\ [][NextDecode]_vars


-----------------------------------------------------------------------------
(* What the claims speak of *)

\* the required fields of each endpoint
RequiredFields(e) ==
    CASE e \in {"owner", "token-uri", "burn"} -> {"tokenId"}
      [] e = "balance-of" -> {"account"}
      [] e = "mint" -> {"to", "tokenId", "categoryName"}
      [] e = "transfer-from" -> {"from", "to", "tokenId"}
      [] e = "create-or-set-category" -> {"categoryName", "categoryURI"}
      [] OTHER -> {}

IsObjectBody(b) == b.kind = "json" /\ b.v.t = "obj"

\* the value body b gives field k
FieldOf(b, k) ==
    IF IsObjectBody(b) /\ k \in DOMAIN b.v.f THEN b.v.f[k] ELSE Absent

IsBlankText(s) == \A i \in 1..Len(s) : IsSpace(s[i])

\* the field is missing, empty or whitespace-only
MissingOrBlank(v) == v = Absent \/ (v.t = "str" /\ IsBlankText(v.s))

\* every required field is a text with something in it, and the optional
\* metadata_text of mint, when given, is a text
WellFormed(e, b) ==
    \/ e = "total-supply"
    \/ /\ IsObjectBody(b)
       /\ \A k \in RequiredFields(e) :
              FieldOf(b, k).t = "str" /\ ~IsBlankText(FieldOf(b, k).s)
       /\ e = "mint" => FieldOf(b, "metadata_text").t \in {"absent", "null", "str"}

IsErr(r) == r.status = 200 /\ ~r.success
IsOk(r) == r.status = 200 /\ r.success

\* t is s without its leading and trailing whitespace
IsTrimOf(t, s) ==
    /\ t # <<>> => ~IsSpace(t[1]) /\ ~IsSpace(t[Len(t)])
    /\ \E i \in 0..Len(s) : \E j \in i..Len(s) :
           /\ t = SubSeq(s, i + 1, j)
           /\ IsBlankText(SubSeq(s, 1, i))
           /\ IsBlankText(SubSeq(s, j + 1, Len(s)))

ExitedWith(nonzero) ==
    pc = "done" /\ proc.kind = "exit" /\ ((proc.rc # 0) = nonzero)

-----------------------------------------------------------------------------
(* C1 *)

\* C1: a request to an endpoint with required fields whose body lacks one of
\* them (missing, empty or whitespace-only) is answered success:false with an
\* error naming the missing fields, and no process is spawned for it.
C1_MissingFieldRejected ==
    (/\ pc = "done"
     /\ IsObjectBody(body)
     /\ \E k \in RequiredFields(ep) : MissingOrBlank(FieldOf(body, k)))
    => /\ IsErr(resp)
       /\ resp.error.k = "empty"
       /\ \A k \in RequiredFields(ep) :
              MissingOrBlank(FieldOf(body, k))
              => \E i \in 1..Len(resp.error.fields) : resp.error.fields[i] = k
       /\ spawned = 0

-----------------------------------------------------------------------------
(* C2 *)

ConfigMissing == ~cmcExists \/ ~cfgExists

-----------------------------------------------------------------------------
(* C3 *)

\* C3: every request, whatever its body and whatever the process does, ends
\* in a response of the uniform shape {success, data} or {success, error}
\* with HTTP status 200.  (Stated for the bodies that are JSON objects, which
\* get_json hands to the handler as a dict.)
C3_UniformResponse ==
    (pc = "done" /\ (IsObjectBody(body) \/ ep = "total-supply"))
    => resp.status = 200

-----------------------------------------------------------------------------
(* C4 *)

\* C4: when the process exits with code 0 and its output is no JSON, the
\* caller receives a success response carrying that text (with or without its
\* surrounding whitespace).
C4_UnparsableOutputPassedThrough ==
    (ExitedWith(FALSE) /\ JsonLoads(Strip(proc.stdout)).raised)
    => /\ IsOk(resp)
       /\ resp.data \in {JStr(proc.stdout), JStr(Strip(proc.stdout))}

-----------------------------------------------------------------------------
(* C5 *)

\* C5 as stated: on a non-zero exit the error is the standard-error text if it
\* is non-empty, otherwise the standard-output text if it is non-empty,
\* otherwise the message with the exit code.
C5_ErrorIsRawStream ==
    ExitedWith(TRUE)
    => resp = err(IF proc.stderr # <<>> THEN MsgText(proc.stderr)
                  ELSE IF proc.stdout # <<>> THEN MsgText(proc.stdout)
                  ELSE MsgExitCode(proc.rc))

\* C5 as amended: on a non-zero exit the error is the standard-error text
\* without its surrounding whitespace if that leaves anything, otherwise the
\* standard-output text without its surrounding whitespace if that leaves
\* anything, otherwise the message with the exit code; the output is never
\* returned as data.
C5_ErrorIsTrimmedStream ==
    ExitedWith(TRUE)
    => /\ IsErr(resp)
       /\ IF ~IsBlankText(proc.stderr)
          THEN resp.error.k = "text" /\ IsTrimOf(resp.error.s, proc.stderr)
          ELSE IF ~IsBlankText(proc.stdout)
          THEN resp.error.k = "text" /\ IsTrimOf(resp.error.s, proc.stdout)
          ELSE resp.error = MsgExitCode(proc.rc)

\* exit code 1, a JSON document on the output and "insufficient permission\n"
\* on the error stream
C5_Witness ==
    /\ ExitedWith(TRUE)
    /\ proc.rc = 1
    /\ proc.stdout = DocFull.text
    /\ proc.stderr = TxtPermissionNl
    /\ resp = err(MsgText(TxtPermission))

-----------------------------------------------------------------------------
(* C6 *)

\* C6: no request calls subprocess.run more than once, whatever the outcome of
\* the first call; a request that passes field validation and the two
\* precondition checks calls it exactly once, and its response exists only
\* once that call has ended (exit, timeout or failure).
C6_ExactlyOneInvocation ==
    /\ spawned <= 1
    /\ pc = "running" => spawned = 1 /\ resp = NoResp /\ proc = NoProc
    /\ (pc = "done" /\ WellFormed(ep, body) /\ ~ConfigMissing)
       => spawned = 1 /\ proc.kind \in {"exit", "timeout", "exception"}
    /\ (resp # NoResp /\ spawned = 1) => proc # NoProc

\* a valid burn answered after its one process timed out
C6_Witness ==
    /\ pc = "done"
    /\ ep = "burn"
    /\ spawned = 1
    /\ proc.kind = "timeout"
    /\ IsErr(resp)

-----------------------------------------------------------------------------
(* C7 *)

\* C7: a request whose process has not exited when the timeout elapses is
\* answered, with success:false and the timeout message, which no other
\* outcome produces; no request stays blocked in the wait forever.
C7_TimeoutAnswered ==
    /\ (pc = "running" /\ clock = Timeout)
           ~> (pc = "done" /\ proc.kind = "timeout" /\ resp = err(MsgTimeout))
    /\ (pc = "running") ~> (pc = "done")
    /\ [](resp = err(MsgTimeout) => proc.kind = "timeout")

C7_Witness ==
    /\ pc = "done"
    /\ proc.kind = "timeout"
    /\ ep = "owner"
    /\ resp = err(MsgTimeout)

-----------------------------------------------------------------------------
(* C8 *)

\* C8: the metadata parameter of a valid mint is the supplied metadata_b64
\* when one is supplied, whatever metadata_text is; otherwise the base64
\* encoding of the UTF-8 bytes of metadata_text ("hello" gives "aGVsbG8=");
\* and the empty string, the key still present, when the text is empty or
\* absent.
C8_MintMetadata ==
    (ep = "mint" /\ call.method = "Mint")
    => LET b64 == FieldOf(body, "metadata_b64")
           txt == FieldOf(body, "metadata_text")
           p == call.params.f
       IN  /\ "metadata" \in DOMAIN p
           /\ p.metadata # Absent
           /\ IF b64.t = "str" /\ b64.s # <<>> THEN p.metadata = b64
              ELSE IF txt.t = "str" /\ txt.s # <<>> THEN
                  /\ p.metadata.t = "str"
                  /\ B64Decode(p.metadata.s, TRUE) = Ret(Utf8Encode(txt.s))
                  /\ Len(p.metadata.s) = 4 * ((Len(Utf8Encode(txt.s)) + 2) \div 3)
                  /\ txt.s = TxtHello => p.metadata.s = TxtHelloB64
                  /\ txt.s = TxtEAcute => p.metadata.s = <<119, 54, 107, 61>>
              ELSE p.metadata = JStr(<<>>)

\* metadata_text "hello" without metadata_b64 was passed as "aGVsbG8="
C8_Witness ==
    /\ pc = "running"
    /\ ep = "mint"
    /\ FieldOf(body, "metadata_text") = JStr(TxtHello)
    /\ FieldOf(body, "metadata_b64") = Absent
    /\ call.params.f.metadata = JStr(TxtHelloB64)

-----------------------------------------------------------------------------
(* C9 *)

\* the JSON object the process printed, when it printed one and exited with 0
PrintedObject ==
    IF ExitedWith(FALSE) /\ ~JsonLoads(Strip(proc.stdout)).raised
       /\ JsonLoads(Strip(proc.stdout)).v.t = "obj"
    THEN JsonLoads(Strip(proc.stdout)).v
    ELSE Absent

\* the object has no contract_result, or one that is an object without result
LacksResult(o) ==
    \/ "contract_result" \notin DOMAIN o.f
    \/ /\ o.f.contract_result.t = "obj"
       /\ "result" \notin DOMAIN o.f.contract_result.f

\* C9: on a read endpoint, after an exit with code 0 whose JSON object lacks
\* contract_result.result (contract_result itself may be absent), the answer
\* is success:true with "0" for total-supply and balance-of and "" for
\* owner and token-uri; and total-supply answers "0" to the result "MA==".
C9_ReadDefaults ==
    (ep \in ReadEndpoints /\ PrintedObject # Absent)
    => /\ LacksResult(PrintedObject)
          => resp = ok(JStr(IF ep \in {"total-supply", "balance-of"}
                            THEN TxtZero ELSE <<>>))
       /\ (ep = "total-supply" /\ PrintedObject = DocResultZero.value)
          => resp = ok(JStr(TxtZero))

\* total-supply answered "0" to an object without contract_result
C9_Witness ==
    /\ ep = "total-supply"
    /\ PrintedObject = DocNoContractResult.value
    /\ resp = ok(JStr(TxtZero))

-----------------------------------------------------------------------------
(* C10 *)

\* the text is non-empty, within the character set, and decodes strictly to
\* bytes that are UTF-8
DecodesStrictly(s) ==
    /\ s # <<>>
    /\ \A i \in 1..Len(s) : IsB64Alpha(s[i]) \/ s[i] \in {61, 10, 13}
    /\ ~B64Decode(s, TRUE).raised
    /\ ~Utf8Decode(B64Decode(s, TRUE).v).raised

\* C10: _decode_result returns the UTF-8 text of the strict base64 decoding of
\* a string exactly when the string is non-empty, made of base64, padding and
\* line-break characters only, and decodes strictly to valid UTF-8; every
\* other argument it returns unchanged ("MA==" gives "0", "not-base64-!!" is
\* unchanged).
C10_DecodeResult ==
    ret # Absent
    => /\ IF arg.t = "str" /\ DecodesStrictly(arg.s)
          THEN ret = JStr(Utf8Decode(B64Decode(arg.s, TRUE).v).v)
          ELSE ret = arg
       /\ arg = JStr(TxtZeroB64) => ret = JStr(TxtZero)
       /\ arg = JStr(TxtNotBase64) => ret = arg
       /\ arg = JStr(TxtHelloB64) => ret = JStr(TxtHello)

\* "MA==" was decoded to "0"
C10_Witness ==
    /\ arg = JStr(TxtZeroB64)
    /\ ret = JStr(TxtZero)

=============================================================================
